---- MODULE Spec2Model ----
(***************************************************************************)
(* gibby: snapshot / restore protocol and backup orchestration.            *)
(*                                                                         *)
(* Strings are sequences of atoms (short strings): the branch name         *)
(* "x@y" is <<"x", "@", "y">>, so that concatenation, prefixing with ":"   *)
(* and splitting at "@" are computed and not assumed.  A tree maps each    *)
(* path to a content number, 0 meaning that the path is absent.  Commits   *)
(* live in one append-only object store shared by the local repository,    *)
(* the bare remote and the clone (git objects are content addressed; push  *)
(* and clone copy them).  Only the first parent of a commit is kept: it is *)
(* the one the revisions  <branch>^  and  <branch>^^  follow.              *)
(***************************************************************************)
EXTENDS Integers, Sequences, FiniteSets, TLC

VARIABLES
    pc,        \* position of the running operation
    repo,      \* the local repository being backed up
    commits,   \* the object store: commit number -> [parent, tree, msg]
    remote,    \* the bare backup repository
    restored,  \* the repository restore_single builds (NoRepo before the clone)
    loc,       \* local variables of the running functions
    exc,       \* the exception that left the operation ("" if none)
    pre,       \* the local repository as it was when backup_single was called
    log        \* the mutating git commands invoked so far, in order

vars == <<pc, repo, commits, remote, restored, loc, exc, pre, log>>

\* ------------------------------------------------------------------ bounds
\* Number of distinct file contents (content 0 is "file absent").
MaxContent == 2

\* --------------------------------------------------------------- constants
GIBBY_SNAPSHOT_BRANCH == <<"gibby_internal/snapshot">>
ORIGIN_NAME == "gibby-origin"

MAIN == <<"main">>
DEV == <<"dev">>
OLD == <<"old">>
AT_BRANCH == <<"x", "@", "y">>

\* The paths of the working directory: "t" is an ordinary file, "ig" a file
\* matched by the repository's ignore rules, "d" a directory and "d/x" a
\* file inside it, matched by the ignore rules as well.
Files == {"t", "ig", "d/x"}
Ignored == {"ig", "d/x"}
Dirs == {"d"}
Paths == Files \cup Dirs
\* The paths a directory holds.
Below(d) == IF d = "d" THEN {"d/x"} ELSE {}
Contents == 0 .. MaxContent
\* The committed content of "t": absent or present (contents are interchangeable).
CommittedContents == {0, 1}
EmptyTree == [f \in Files |-> 0]

\* Printable object names of the commits of the store.
HashNames == <<"h1", "h2", "h3", "h4", "h5", "h6">>
get_hash(c) == <<HashNames[c]>>

NoRepo == [absent |-> TRUE]

\* ----------------------------------------------------------- git semantics
\* HEAD is [branch |-> name, commit |-> 0] when symbolic and
\* [branch |-> <<>>, commit |-> c] when detached.
OnBranch(r) == r.head.branch # <<>>

HeadCommit(r) ==
    IF OnBranch(r)
    THEN IF r.head.branch \in DOMAIN r.branches THEN r.branches[r.head.branch] ELSE 0
    ELSE r.head.commit

TreeOf(cs, c) == IF c = 0 THEN EmptyTree ELSE cs[c].tree

Parent(cs, c) == IF c = 0 THEN 0 ELSE cs[c].parent

SetBranch(bs, name, c) ==
    [n \in (DOMAIN bs) \cup {name} |-> IF n = name THEN c ELSE bs[n]]

DropBranch(bs, name) == [n \in (DOMAIN bs) \ {name} |-> bs[n]]

\* Moves whatever HEAD designates (the checked-out branch, or HEAD itself when
\* detached) to commit c.
MoveHead(r, c) ==
    IF OnBranch(r)
    THEN [r EXCEPT !.branches = SetBranch(r.branches, r.head.branch, c)]
    ELSE [r EXCEPT !.head = [branch |-> <<>>, commit |-> c]]

NoMarkers ==
    [CHERRY_PICK_HEAD |-> FALSE, MERGE_HEAD |-> FALSE,
     REBASE_HEAD |-> FALSE, REVERT_HEAD |-> FALSE]

\* A commit and a reset conclude a pending merge, cherry-pick or revert: git
\* removes their marker refs, and leaves REBASE_HEAD.
ClearedMarkers(m) ==
    [m EXCEPT !.CHERRY_PICK_HEAD = FALSE, !.MERGE_HEAD = FALSE, !.REVERT_HEAD = FALSE]

\* git branch --show-current: the branch name, or the empty string.
get_current_branch(r) == r.head.branch

\* git rev-parse HEAD
get_current_commit_hash(r) == get_hash(HeadCommit(r))

\* git branch -f --no-track <name>: refused for the checked-out branch.
CanBranchForce(r, name) == HeadCommit(r) # 0 /\ r.head.branch # name

GitBranchForce(r, name) ==
    [r EXCEPT !.branches = SetBranch(r.branches, name, HeadCommit(r))]

\* git symbolic-ref HEAD refs/heads/<name>: neither index nor files change.
GitSymbolicRef(r, name) == [r EXCEPT !.head = [branch |-> name, commit |-> 0]]

\* git commit --no-verify --allow-empty -m <msg>: the new commit holds the index.
CommitOfWorkingTree(r, cs, msg) == [parent |-> HeadCommit(r), tree |-> r.wt, msg |-> msg]

NewCommit(r, cs, msg) == [parent |-> HeadCommit(r), tree |-> r.index, msg |-> msg]

CanCommit(cs) == Len(cs) < Len(HashNames)

GitCommitRepo(r, cs) ==
    [MoveHead(r, Len(cs) + 1) EXCEPT !.markers = ClearedMarkers(r.markers)]

\* git add . : every path of the working directory that is not ignored, and
\* every tracked path, is staged as it is on disk (removals included).
GitAddAll(r) ==
    [r EXCEPT !.index =
        [f \in Files |-> IF f \in Ignored /\ r.index[f] = 0 THEN r.index[f] ELSE r.wt[f]]]

\* git add --force -- <paths>: a path that is a directory stands for every
\* file below it.
ForceAdded(paths) == (paths \cap Files) \cup UNION {Below(d) : d \in paths \cap Dirs}

GitAddForce(r, paths) ==
    [r EXCEPT !.index =
        [f \in Files |-> IF f \in ForceAdded(paths) THEN r.wt[f] ELSE r.index[f]]]

\* The commit a revision string names: a branch, else an object name.
RevParse(r, cs, rev) ==
    IF rev \in DOMAIN r.branches THEN r.branches[rev]
    ELSE IF \E c \in 1 .. Len(cs) : get_hash(c) = rev
         THEN CHOOSE c \in 1 .. Len(cs) : get_hash(c) = rev
         ELSE 0

\* git checkout <commit>: a path whose content differs between HEAD and the
\* target is rewritten in the index and on disk; git refuses when such a path
\* carries a local change (an ignored untracked file is overwritten).
CheckoutTouches(r, cs, c) ==
    {f \in Files : TreeOf(cs, HeadCommit(r))[f] # TreeOf(cs, c)[f]}

CanCheckout(r, cs, c) ==
    /\ c # 0
    /\ \A f \in CheckoutTouches(r, cs, c) :
          /\ r.index[f] = TreeOf(cs, HeadCommit(r))[f]
          /\ r.wt[f] = r.index[f] \/ (r.index[f] = 0 /\ f \in Ignored)

GitCheckoutDetached(r, cs, c) ==
    [r EXCEPT
        !.head = [branch |-> <<>>, commit |-> c],
        !.index = [f \in Files |->
                     IF f \in CheckoutTouches(r, cs, c) THEN TreeOf(cs, c)[f] ELSE r.index[f]],
        !.wt = [f \in Files |->
                     IF f \in CheckoutTouches(r, cs, c) THEN TreeOf(cs, c)[f] ELSE r.wt[f]],
        !.markers = ClearedMarkers(r.markers)]

\* git reset <commit> (mixed): HEAD moves, the index becomes the commit's
\* tree, the files on disk stay.
GitResetMixed(r, cs, c) ==
    [MoveHead(r, c) EXCEPT !.index = TreeOf(cs, c), !.markers = ClearedMarkers(r.markers)]

\* git reset --soft <commit>: only HEAD moves.
NoSoftReset(r, c) == r

GitResetSoft(r, c) == MoveHead(r, c)

\* git branch --delete --force <name>: refused for a missing or checked-out branch.
CanBranchDelete(r, name) == name \in DOMAIN r.branches /\ r.head.branch # name

GitBranchDelete(r, name) == [r EXCEPT !.branches = DropBranch(r.branches, name)]

\* git push --all --force -- <remote>
GitPushAll(rem, r) ==
    [rem EXCEPT !.branches =
        [n \in (DOMAIN rem.branches) \cup (DOMAIN r.branches) |->
            IF n \in DOMAIN r.branches THEN r.branches[n] ELSE rem.branches[n]]]

\* git push <remote> --delete <branch>
GitPushDelete(rem, name) == [rem EXCEPT !.branches = DropBranch(rem.branches, name)]

\* ------------------------------------------------------ pieces of logic.py
StartsWith(s, p) == Len(s) >= Len(p) /\ SubSeq(s, 1, Len(p)) = p

\* The remote arguments tried: one a path, one beginning with a dash.
RemoteArgs == {<<"/", "backup">>, <<"-", "backup">>}

\* git rev-parse --verify <marker ref> exits with status 0 iff the ref exists.
RevParseVerifySucceeds(r, marker) == r.markers[marker]

is_ongoing_cherry_pick(r) ==
    IF RevParseVerifySucceeds(r, "CHERRY_PICK_HEAD") THEN FALSE ELSE TRUE

is_ongoing_merge(r) ==
    IF RevParseVerifySucceeds(r, "MERGE_HEAD") THEN FALSE ELSE TRUE

is_ongoing_rebase(r) ==
    IF RevParseVerifySucceeds(r, "REBASE_HEAD") THEN FALSE ELSE TRUE

is_ongoing_revert(r) ==
    IF RevParseVerifySucceeds(r, "REVERT_HEAD") THEN FALSE ELSE TRUE

\* The dictionary of checks, in insertion order, with the operation each names.
checks_to_error_messages == <<"cherry pick", "merge", "rebase", "revert">>

RunCheck(r, k) ==
    CASE k = 1 -> is_ongoing_cherry_pick(r)
      [] k = 2 -> is_ongoing_merge(r)
      [] k = 3 -> is_ongoing_rebase(r)
      [] k = 4 -> is_ongoing_revert(r)

\* The first check of the loop that answers true (0 if none does).
FirstTrueCheck(r) ==
    IF \E k \in 1 .. 4 : RunCheck(r, k)
    THEN CHOOSE k \in 1 .. 4 : RunCheck(r, k) /\ \A j \in 1 .. (k - 1) : ~RunCheck(r, j)
    ELSE 0

IsReservedCheckout(current_branch) == current_branch = GIBBY_SNAPSHOT_BRANCH

\* serialized_branch_name: the branch name, or ":" + hash when detached.
SerializedBranchName(r) ==
    IF get_current_branch(r) = <<>>
    THEN <<":">> \o get_current_commit_hash(r)
    ELSE get_current_branch(r)

\* The paths the walk of the working directory yields: the files on disk
\* and the directories that hold one.
PathExists(r, p) ==
    IF p \in Dirs THEN \E f \in Below(p) : r.wt[f] # 0 ELSE r.wt[p] # 0

\* The existing paths whose gibby-snapshot attribute is "force".
files_to_force_snapshot(r) == {p \in Paths : PathExists(r, p) /\ r.attrs[p] = "force"}

StagedMessage(l) == <<"staged", "@">> \o l.serialized_branch_name

UnstagedMessage(l) == <<"unstaged", "@">> \o l.serialized_branch_name

\* Leaving the scratch branch: a checkout of the recorded hash when the origin
\* was detached, else a switch of the symbolic ref.
CanLeaveScratch(r, cs, l) ==
    l.is_detached_head => CanCheckout(r, cs, RevParse(r, cs, l.current_branch_or_commit))

LeaveScratch(r, cs, l) ==
    IF l.is_detached_head
    THEN GitCheckoutDetached(r, cs, RevParse(r, cs, l.current_branch_or_commit))
    ELSE GitSymbolicRef(r, l.current_branch_or_commit)

\* gibby_internal/snapshot^ and gibby_internal/snapshot^^
MixedResetTarget(r, cs) == Parent(cs, r.branches[GIBBY_SNAPSHOT_BRANCH])

SoftResetTarget(r, cs) == Parent(cs, Parent(cs, r.branches[GIBBY_SNAPSHOT_BRANCH]))

HasScratch(r) == GIBBY_SNAPSHOT_BRANCH \in DOMAIN r.branches

\* Git.does_remote_exist, get_local_branches and get_remote_branches are not
\* part of the sources at hand: they answer whether the remote can be reached
\* and list the branch names of either side.
does_remote_exist(rem) == rem.exists

get_local_branches(r) == DOMAIN r.branches

get_remote_branches(rem) == DOMAIN rem.branches

\* The branch reconciliation deletes a remote branch when this holds.
EveryBranchStale(remote_branch, local_branches) == TRUE

IsStaleInverted(remote_branch, local_branches) == remote_branch \in local_branches

IsStale(remote_branch, local_branches) == remote_branch \notin local_branches

EmptyBranches == [n \in {} |-> 0]

InitLoc ==
    [current_branch_or_commit |-> <<>>, is_detached_head |-> FALSE,
     serialized_branch_name |-> <<>>, force_paths |-> {},
     local_branches |-> {}, remote_branches |-> {}, pending |-> "",
     pushed_tips |-> EmptyBranches, remote_after_push |-> {},
     drop_snapshot |-> FALSE, current_branch |-> <<>>, original_branch |-> <<>>,
     repositories |-> <<>>, i |-> 0, invoked |-> <<>>,
     remote_arg |-> <<>>, test_connectivity |-> FALSE, probed |-> FALSE,
     restore_to |-> "", source_directory |-> <<>>, ignore_dir |-> {}, queue |-> <<>>,
     files_to_force_snapshot |-> <<>>, iterator |-> <<>>, batches |-> <<>>,
     local_path |-> [exists |-> FALSE, entries |-> {}], calls |-> 0,
     fs |-> <<>>, target |-> 0, permissions |-> 0, umask |-> 0,
     missing_directories |-> <<>>, directory |-> 0, created_before |-> 0,
     records |-> <<>>, stdout |-> <<>>, yielded |-> <<>>,
     values |-> <<>>, nodes |-> <<>>, buffer |-> <<>>, should_snapshot |-> TRUE,
     groups |-> <<>>]

\* ------------------------------------------------------------ initial state
HeadChoices == {MAIN, AT_BRANCH, GIBBY_SNAPSHOT_BRANCH, <<>>}

InitBranches(h, snap) ==
    [n \in {MAIN, DEV}
           \cup (IF h = AT_BRANCH THEN {AT_BRANCH} ELSE {})
           \cup (IF snap \/ h = GIBBY_SNAPSHOT_BRANCH THEN {GIBBY_SNAPSHOT_BRANCH} ELSE {})
       |-> IF n \in {MAIN, AT_BRANCH} THEN 2 ELSE 1]

InitCommits(t) ==
    << [parent |-> 0, tree |-> EmptyTree, msg |-> <<"root">>],
       [parent |-> 1, tree |-> [EmptyTree EXCEPT !["t"] = t], msg |-> <<"work">>] >>

InitRemotes ==
    { [exists |-> FALSE, head |-> GIBBY_SNAPSHOT_BRANCH, branches |-> EmptyBranches],
      [exists |-> TRUE, head |-> GIBBY_SNAPSHOT_BRANCH, branches |-> EmptyBranches],
      [exists |-> TRUE, head |-> GIBBY_SNAPSHOT_BRANCH,
       branches |-> [n \in {OLD, MAIN} |-> 1]] }

Init ==
    /\ pc = "bs_entry"
    /\ \E h \in HeadChoices, snap \in BOOLEAN,
          tc \in CommittedContents, ti \in Contents, tw \in Contents, gw \in Contents,
          ga \in {"force", "unspecified"},
          m \in [{"CHERRY_PICK_HEAD", "MERGE_HEAD", "REBASE_HEAD", "REVERT_HEAD"} -> BOOLEAN] :
          /\ (h = GIBBY_SNAPSHOT_BRANCH => snap)
          /\ repo = [head |-> IF h = <<>> THEN [branch |-> <<>>, commit |-> 2]
                              ELSE [branch |-> h, commit |-> 0],
                     branches |-> InitBranches(h, snap),
                     index |-> [f \in Files |-> IF f = "t" THEN ti ELSE 0],
                     wt |-> [f \in Files |-> IF f = "t" THEN tw ELSE IF f = "ig" THEN gw ELSE 0],
                     attrs |-> [p \in Paths |-> IF p = "ig" THEN ga ELSE "unspecified"],
                     markers |-> m]
          /\ commits = InitCommits(tc)
    /\ remote \in InitRemotes
    /\ restored = NoRepo
    /\ loc = InitLoc
    /\ exc = ""
    /\ pre = repo
    /\ log = <<>>

\* ------------------------------------------------------------ backup_single
\* A remote that begins with a dash would be read by git as an option.
FlagsAccepted(remote_arg) == FALSE

IsFlagLike(remote_arg) == StartsWith(remote_arg, <<"-">>)

\* Whether the connectivity of the remote is tested.
NeverProbes(test_connectivity) == FALSE

ShouldProbe(test_connectivity) == test_connectivity

\* The remote argument and the connectivity probe.
BackupSingleArguments(remote_arg, test_connectivity) ==
    /\ IF IsFlagLike(remote_arg)
       THEN pc' = "raised" /\ exc' = "ValueError"
       ELSE IF ShouldProbe(test_connectivity) /\ ~does_remote_exist(remote)
       THEN pc' = "raised" /\ exc' = "AbortOperationError"
       ELSE pc' = "checks" /\ exc' = exc
    /\ loc' = [loc EXCEPT !.remote_arg = remote_arg,
                          !.test_connectivity = test_connectivity,
                          !.probed = ~IsFlagLike(remote_arg) /\ ShouldProbe(test_connectivity)]
    /\ UNCHANGED <<repo, commits, remote, restored, pre, log>>

BackupSingleEntry ==
    /\ pc = "bs_entry"
    /\ \E remote_arg \in RemoteArgs, test_connectivity \in BOOLEAN :
          BackupSingleArguments(remote_arg, test_connectivity)

\* _do_snapshot: the loop over the in-progress checks.
CheckOngoing ==
    /\ pc = "checks"
    /\ IF FirstTrueCheck(repo) # 0
       THEN pc' = "raised" /\ exc' = "AbortOperationError"
       ELSE pc' = "origin" /\ exc' = exc
    /\ UNCHANGED <<repo, commits, remote, restored, loc, pre, log>>

\* _do_snapshot: the origin, the reserved-name check and the attribute listing.
IdentifyOrigin ==
    /\ pc = "origin"
    /\ IF get_current_branch(repo) # <<>> /\ IsReservedCheckout(get_current_branch(repo))
       THEN pc' = "raised" /\ exc' = "AbortOperationError" /\ loc' = loc
       ELSE /\ pc' = "branch_f"
            /\ exc' = exc
            /\ loc' = [loc EXCEPT
                 !.is_detached_head = (get_current_branch(repo) = <<>>),
                 !.current_branch_or_commit =
                     IF get_current_branch(repo) = <<>>
                     THEN get_current_commit_hash(repo)
                     ELSE get_current_branch(repo),
                 !.serialized_branch_name = SerializedBranchName(repo),
                 !.force_paths = files_to_force_snapshot(repo)]
    /\ UNCHANGED <<repo, commits, remote, restored, pre, log>>

\* One git command of the snapshot sequence, which may fail: the error leaves
\* _do_snapshot at once (the try block has not been entered yet).
SnapshotStep(here, next, cmd, can, newRepo, newCommits) ==
    /\ pc = here
    /\ log' = Append(log, cmd)
    /\ \E ok \in BOOLEAN :
          IF ok /\ can
          THEN repo' = newRepo /\ commits' = newCommits /\ pc' = next /\ exc' = exc
          ELSE pc' = "raised" /\ exc' = "CalledProcessError" /\ UNCHANGED <<repo, commits>>
    /\ UNCHANGED <<remote, restored, loc, pre>>

CreateScratchBranch ==
    SnapshotStep("branch_f", "symref", "branch -f",
                 CanBranchForce(repo, GIBBY_SNAPSHOT_BRANCH),
                 GitBranchForce(repo, GIBBY_SNAPSHOT_BRANCH), commits)

EnterScratchBranch ==
    SnapshotStep("symref", "commit_staged", "symbolic-ref", TRUE,
                 GitSymbolicRef(repo, GIBBY_SNAPSHOT_BRANCH), commits)

CommitStaged ==
    SnapshotStep("commit_staged", "add_all", "commit", CanCommit(commits),
                 GitCommitRepo(repo, commits),
                 Append(commits, NewCommit(repo, commits, StagedMessage(loc))))

AddAll ==
    SnapshotStep("add_all", "add_force", "add", TRUE, GitAddAll(repo), commits)

\* The force-adds (no command when no path is marked force).
AddForce ==
    IF loc.force_paths = {}
    THEN /\ pc = "add_force"
         /\ pc' = "commit_unstaged"
         /\ UNCHANGED <<repo, commits, remote, restored, loc, exc, pre, log>>
    ELSE SnapshotStep("add_force", "commit_unstaged", "add --force", TRUE,
                      GitAddForce(repo, loc.force_paths), commits)

CommitUnstaged ==
    SnapshotStep("commit_unstaged", "leave", "commit", CanCommit(commits),
                 GitCommitRepo(repo, commits),
                 Append(commits, NewCommit(repo, commits, UnstagedMessage(loc))))

LeaveScratchBranch ==
    SnapshotStep("leave", "reset_mixed",
                 IF loc.is_detached_head THEN "checkout" ELSE "symbolic-ref",
                 CanLeaveScratch(repo, commits, loc),
                 LeaveScratch(repo, commits, loc), commits)

ResetMixed ==
    SnapshotStep("reset_mixed", "reset_soft", "reset", HasScratch(repo),
                 GitResetMixed(repo, commits, MixedResetTarget(repo, commits)), commits)

ResetSoft ==
    SnapshotStep("reset_soft", "push", "reset --soft", HasScratch(repo),
                 GitResetSoft(repo, SoftResetTarget(repo, commits)), commits)

\* The body of the with block.  An error in it is pending while the finally
\* clause of _do_snapshot runs.
PushAll ==
    /\ pc = "push"
    /\ log' = Append(log, "push --all")
    /\ \E ok \in BOOLEAN :
          IF ok /\ remote.exists
          THEN /\ remote' = GitPushAll(remote, repo)
               /\ pc' = "list"
               /\ loc' = [loc EXCEPT !.pushed_tips = repo.branches]
          ELSE /\ pc' = "finally"
               /\ loc' = [loc EXCEPT !.pending = "CalledProcessError"]
               /\ remote' = remote
    /\ UNCHANGED <<repo, commits, restored, exc, pre>>

ListBranches ==
    /\ pc = "list"
    /\ \E ok \in BOOLEAN :
          IF ok
          THEN /\ pc' = "reconcile"
               /\ loc' = [loc EXCEPT !.local_branches = get_local_branches(repo),
                                     !.remote_branches = get_remote_branches(remote),
                                     !.remote_after_push = get_remote_branches(remote)]
          ELSE /\ pc' = "finally"
               /\ loc' = [loc EXCEPT !.pending = "CalledProcessError"]
    /\ UNCHANGED <<repo, commits, remote, restored, exc, pre, log>>

\* One iteration of the loop over the remote's branches.
NextRemoteBranch(l) == CHOOSE b \in l.remote_branches : TRUE

Reconcile ==
    /\ pc = "reconcile"
    /\ IF loc.remote_branches = {}
       THEN pc' = "finally" /\ UNCHANGED <<remote, loc, log>>
       ELSE LET b == NextRemoteBranch(loc)
                rest == [loc EXCEPT !.remote_branches = loc.remote_branches \ {b}]
            IN IF IsStale(b, loc.local_branches)
               THEN /\ log' = Append(log, "push --delete")
                    /\ \E ok \in BOOLEAN :
                          IF ok
                          THEN remote' = GitPushDelete(remote, b) /\ loc' = rest /\ pc' = pc
                          ELSE /\ remote' = remote
                               /\ loc' = [loc EXCEPT !.pending = "CalledProcessError"]
                               /\ pc' = "finally"
               ELSE loc' = rest /\ pc' = pc /\ UNCHANGED <<remote, log>>
    /\ UNCHANGED <<repo, commits, restored, exc, pre>>

\* The finally clause of _do_snapshot: the scratch branch is deleted; an error
\* of the deletion, else the pending one, leaves backup_single.
Cleanup ==
    /\ pc = "finally"
    /\ log' = Append(log, "branch -D")
    /\ \E ok \in BOOLEAN :
          IF ok /\ CanBranchDelete(repo, GIBBY_SNAPSHOT_BRANCH)
          THEN /\ repo' = GitBranchDelete(repo, GIBBY_SNAPSHOT_BRANCH)
               /\ IF loc.pending # ""
                  THEN pc' = "raised" /\ exc' = loc.pending
                  ELSE pc' = "returned" /\ exc' = exc
          ELSE repo' = repo /\ pc' = "raised" /\ exc' = "CalledProcessError"
    /\ UNCHANGED <<commits, remote, restored, loc, pre>>

\* ----------------------------------------------------------- restore_single
\* git clone --no-hardlinks --origin gibby-origin <remote> . : the branch the
\* remote's HEAD names is checked out, the remote's branches become
\* remote-tracking refs.
CloneTip(rem) == IF rem.head \in DOMAIN rem.branches THEN rem.branches[rem.head] ELSE 0

GitClone(rem, cs) ==
    [head |-> [branch |-> rem.head, commit |-> 0],
     branches |-> [n \in {rem.head} \cap DOMAIN rem.branches |-> rem.branches[n]],
     index |-> TreeOf(cs, CloneTip(rem)),
     wt |-> TreeOf(cs, CloneTip(rem)),
     attrs |-> [p \in Paths |-> "unspecified"],
     markers |-> NoMarkers,
     tracking |-> rem.branches,
     alias |-> TRUE]

StripRefsHeads(branch) ==
    IF StartsWith(branch, <<"refs/heads/">>) THEN SubSeq(branch, 2, Len(branch)) ELSE branch

\* The branches the loop creates: every remote branch but the checked-out one.
BranchesToTrack(rem, current_branch) ==
    {StripRefsHeads(b) : b \in get_remote_branches(rem)} \ {current_branch}

\* git branch <b> --track remotes/gibby-origin/<b>, for each of them.
CanTrackAll(r, names) ==
    \A b \in names : b \notin DOMAIN r.branches /\ b \in DOMAIN r.tracking

GitTrackAll(r, names) ==
    [r EXCEPT !.branches =
        [n \in (DOMAIN r.branches) \cup names |->
            IF n \in names THEN r.tracking[n] ELSE r.branches[n]]]

\* Git.get_commit_message is not part of the sources at hand: the message of
\* the branch's tip, as git prints it (with the closing newline).
get_commit_message(r, cs, name) == cs[r.branches[name]].msg \o <<"\n">>

RECURSIVE PyStrip(_, _)
PyStrip(s, ch) ==
    IF s # <<>> /\ Head(s) = ch THEN PyStrip(Tail(s), ch)
    ELSE IF s # <<>> /\ s[Len(s)] = ch THEN PyStrip(SubSeq(s, 1, Len(s) - 1), ch)
    ELSE s

RECURSIVE PySplit(_, _)
PySplit(s, sep) ==
    IF \A i \in 1 .. Len(s) : s[i] # sep
    THEN <<s>>
    ELSE LET i == CHOOSE k \in 1 .. Len(s) : s[k] = sep /\ \A j \in 1 .. (k - 1) : s[j] # sep
         IN <<SubSeq(s, 1, i - 1)>> \o PySplit(SubSeq(s, i + 1, Len(s)), sep)

\* original_branch: element [1] of the message split at "@".
OriginalBranch(r, cs) ==
    PySplit(PyStrip(get_commit_message(r, cs, GIBBY_SNAPSHOT_BRANCH), "\n"), "@")[2]

\* Whether the clone is unwound (the two resets).
AlwaysUnwinds(current_branch, drop_snapshot) == TRUE

ShouldUnwind(current_branch, drop_snapshot) == current_branch = GIBBY_SNAPSHOT_BRANCH

\* git check-ref-format: a ref name holds no colon.
IsValidRefName(name) == name # <<>> /\ \A i \in 1 .. Len(name) : name[i] # ":"

\* What restore_to may be when restore_single is called.
DestinationKinds == {"missing", "empty_dir", "nonempty_dir", "file"}

\* The call of restore_single: its arguments, and the destination as it is.
RestoreCall ==
    /\ pc = "returned"
    /\ pc' = "rs_entry"
    /\ \E remote_arg \in RemoteArgs, drop_snapshot \in BOOLEAN, d \in DestinationKinds :
          loc' = [InitLoc EXCEPT !.remote_arg = remote_arg,
                                 !.drop_snapshot = drop_snapshot,
                                 !.restore_to = d]
    /\ UNCHANGED <<repo, commits, remote, restored, exc, pre, log>>

RestoreEntry ==
    /\ pc = "rs_entry"
    /\ IF IsFlagLike(loc.remote_arg)
       THEN pc' = "rs_raised" /\ exc' = "ValueError"
       ELSE pc' = "rs_dest" /\ exc' = exc
    /\ UNCHANGED <<repo, commits, remote, restored, loc, pre, log>>

\* restore_to.exists(), is_dir() and iterdir()
PathExistsAt(d) == d # "missing"

is_dir(d) == d \in {"empty_dir", "nonempty_dir"}

AnythingIsEmpty(d) == FALSE

HasEntries(d) == d = "nonempty_dir"

\* The destination is created if missing, then must be an empty directory.
PrepareDestination ==
    /\ pc = "rs_dest"
    /\ IF ~PathExistsAt(loc.restore_to)
       THEN \E ok \in BOOLEAN :
               IF ok
               THEN pc' = "clone" /\ exc' = exc /\ loc' = [loc EXCEPT !.restore_to = "empty_dir"]
               ELSE pc' = "rs_raised" /\ exc' = "OSError" /\ loc' = loc
       ELSE IF ~is_dir(loc.restore_to) \/ HasEntries(loc.restore_to)
       THEN pc' = "rs_raised" /\ exc' = "ValueError" /\ loc' = loc
       ELSE pc' = "clone" /\ exc' = exc /\ loc' = loc
    /\ UNCHANGED <<repo, commits, remote, restored, pre, log>>

\* One git command of restore_single, which may fail.
RestoreStep(here, next, cmd, can, newRestored) ==
    /\ pc = here
    /\ log' = Append(log, cmd)
    /\ \E ok \in BOOLEAN :
          IF ok /\ can
          THEN restored' = newRestored /\ pc' = next /\ exc' = exc
          ELSE pc' = "rs_raised" /\ exc' = "CalledProcessError" /\ restored' = restored
    /\ UNCHANGED <<repo, commits, remote, pre>>

Clone ==
    /\ RestoreStep("clone", "track", "clone", remote.exists, GitClone(remote, commits))
    /\ loc' = [loc EXCEPT !.current_branch = remote.head]

CreateLocalBranches ==
    /\ RestoreStep("track", "unwind", "branch --track",
                   CanTrackAll(restored, BranchesToTrack(remote, loc.current_branch)),
                   GitTrackAll(restored, BranchesToTrack(remote, loc.current_branch)))
    /\ loc' = loc

\* The else branch is entered, or skipped with a warning.  Reading the
\* message of a scratch branch that does not exist fails.
DecideUnwind ==
    /\ pc = "unwind"
    /\ IF ShouldUnwind(loc.current_branch, loc.drop_snapshot)
       THEN IF HasScratch(restored)
            THEN /\ pc' = "rs_symref"
                 /\ exc' = exc
                 /\ loc' = [loc EXCEPT !.original_branch = OriginalBranch(restored, commits)]
            ELSE pc' = "rs_raised" /\ exc' = "CalledProcessError" /\ loc' = loc
       ELSE pc' = "obliterate" /\ exc' = exc /\ loc' = loc
    /\ UNCHANGED <<repo, commits, remote, restored, pre, log>>

\* git symbolic-ref HEAD refs/heads/<original_branch>.  For a name that is no
\* valid ref name the outcome depends on the git at hand: recent versions
\* refuse, older ones write it.
RestoreSymbolicRef ==
    /\ pc = "rs_symref"
    /\ log' = Append(log, "symbolic-ref")
    /\ \E ok \in BOOLEAN, lenient \in BOOLEAN :
          IF ok /\ (IsValidRefName(loc.original_branch) \/ lenient)
          THEN /\ restored' = GitSymbolicRef(restored, loc.original_branch)
               /\ pc' = "rs_reset_mixed"
               /\ exc' = exc
          ELSE pc' = "rs_raised" /\ exc' = "CalledProcessError" /\ restored' = restored
    /\ UNCHANGED <<repo, commits, remote, loc, pre>>

RestoreResetMixed ==
    /\ RestoreStep("rs_reset_mixed", "rs_reset_soft", "reset", HasScratch(restored),
                   GitResetMixed(restored, commits, MixedResetTarget(restored, commits)))
    /\ loc' = loc

RestoreResetSoft ==
    /\ RestoreStep("rs_reset_soft", "obliterate", "reset --soft", HasScratch(restored),
                   GitResetSoft(restored, SoftResetTarget(restored, commits)))
    /\ loc' = loc

\* The deletion of the scratch branch: its failure is a warning.
Obliterate ==
    /\ pc = "obliterate"
    /\ log' = Append(log, "branch -D")
    /\ \E ok \in BOOLEAN :
          IF ok /\ CanBranchDelete(restored, GIBBY_SNAPSHOT_BRANCH)
          THEN restored' = GitBranchDelete(restored, GIBBY_SNAPSHOT_BRANCH) /\ pc' = "reflog"
          ELSE restored' = restored /\ pc' = "remote_remove"
    /\ UNCHANGED <<repo, commits, remote, loc, exc, pre>>

ReflogExpire ==
    /\ RestoreStep("reflog", "gc", "reflog expire", TRUE, restored)
    /\ loc' = loc

GarbageCollect ==
    /\ RestoreStep("gc", "remote_remove", "gc", TRUE, restored)
    /\ loc' = loc

\* git remote remove gibby-origin
AliasKept(r) == r

GitRemoteRemove(r) == [r EXCEPT !.alias = FALSE, !.tracking = EmptyBranches]

RemoveRemote ==
    /\ RestoreStep("remote_remove", "rs_done", "remote remove", restored.alias,
                   GitRemoteRemove(restored))
    /\ loc' = loc

\* ------------------------------------------------------------------ backup
\* The bulk backup of the repositories found under a source directory:
\* loc.repositories lists the repositories the scan found, each as it is
\* when its turn comes.  MaxRepos bounds the .git entries of the tree.
MaxRepos == 2

AllMarkers ==
    [CHERRY_PICK_HEAD |-> TRUE, MERGE_HEAD |-> TRUE,
     REBASE_HEAD |-> TRUE, REVERT_HEAD |-> TRUE]

BulkRepository(h, m) ==
    [head |-> [branch |-> h, commit |-> 0],
     branches |-> InitBranches(h, FALSE),
     index |-> [f \in Files |-> IF f = "t" THEN 1 ELSE 0],
     wt |-> [f \in Files |-> IF f = "d/x" THEN 0 ELSE 1],
     attrs |-> [p \in Paths |-> IF p = "ig" THEN "force" ELSE "unspecified"],
     markers |-> m]

BulkRepositories ==
    { BulkRepository(MAIN, AllMarkers), BulkRepository(MAIN, NoMarkers),
      BulkRepository(MAIN, [NoMarkers EXCEPT !.MERGE_HEAD = TRUE]),
      BulkRepository(GIBBY_SNAPSHOT_BRANCH, AllMarkers) }

\* remote_path.raw_url: a file:// URL.
BulkRemoteArg == <<"file://", "/", "backup">>

\* The bare repository mkdirs and init_git_bare_if_needed leave at the
\* destination of a repository backed up for the first time.
FreshRemote == [exists |-> TRUE, head |-> GIBBY_SNAPSHOT_BRANCH, branches |-> EmptyBranches]

\* The directories at and below the source directory, each a sequence of
\* names relative to it: ".", "a", "a/c" and "b".
Root == <<>>
Directories == {Root, <<"a">>, <<"a", "c">>, <<"b">>}

\* directory.iterdir(), the directories among its entries.
AllDescendants(d) == {e \in Directories : Len(e) > Len(d) /\ SubSeq(e, 1, Len(d)) = d}

Subdirectories(d) == {e \in Directories : Len(e) = Len(d) + 1 /\ SubSeq(e, 1, Len(d)) = d}

\* The orders in which iterdir may list them.
Orderings(S) == {q \in [1 .. Cardinality(S) -> S] : \A i, j \in 1 .. Cardinality(S) : q[i] = q[j] => i = j}

\* The directory trees a run starts from: which directories hold a .git
\* entry (at most MaxRepos of them), and the state of the repository there.
SourceDirectories ==
    {t \in [Directories -> [has_git : BOOLEAN, state : BulkRepositories]] :
        /\ \A d \in Directories : ~t[d].has_git => t[d].state = BulkRepository(MAIN, NoMarkers)
        /\ Cardinality({d \in Directories : t[d].has_git}) <= MaxRepos}

\* The directories an ignore expression matches (none when it is not given).
IgnoreChoices == {{}, {Root}, {<<"a">>}, {<<"b">>, <<"a", "c">>}}

NothingIgnored(path, ignore_path_regex) == FALSE

is_path_ignored(path, ignore_path_regex) == path \in ignore_path_regex

\* The repository found at a directory, as it is when its turn comes.
RepositoryAt(t, d) ==
    [path |-> d, head |-> t[d].state.head, branches |-> t[d].state.branches,
     index |-> t[d].state.index, wt |-> t[d].state.wt, attrs |-> t[d].state.attrs,
     markers |-> t[d].state.markers]

\* No destination exists before backup() prepares it.
NoRemote == [exists |-> FALSE, head |-> GIBBY_SNAPSHOT_BRANCH, branches |-> EmptyBranches]

BulkInit ==
    /\ pc = "scan"
    /\ repo = NoRepo
    /\ commits = <<>>
    /\ remote = NoRemote
    /\ restored = NoRepo
    /\ \E t \in SourceDirectories, ig \in IgnoreChoices :
          loc = [InitLoc EXCEPT !.source_directory = t, !.ignore_dir = ig,
                                !.queue = <<Root>>]
    /\ exc = ""
    /\ pre = NoRepo
    /\ log = <<>>

\* yield_git_repositories, consumed to its end by list(): one directory is
\* taken from the end of the queue; an ignored one is skipped, one that holds
\* .git is yielded and not entered, any other has its directories queued.
Scan ==
    /\ pc = "scan"
    /\ IF loc.queue = <<>>
       THEN pc' = "backup" /\ loc' = loc
       ELSE LET directory == loc.queue[Len(loc.queue)]
                popped == SubSeq(loc.queue, 1, Len(loc.queue) - 1)
            IN /\ pc' = pc
               /\ IF is_path_ignored(directory, loc.ignore_dir)
                  THEN loc' = [loc EXCEPT !.queue = popped]
                  ELSE IF loc.source_directory[directory].has_git
                  THEN loc' = [loc EXCEPT
                           !.queue = popped,
                           !.repositories =
                               Append(loc.repositories,
                                      RepositoryAt(loc.source_directory, directory))]
                  ELSE \E q \in Orderings(Subdirectories(directory)) :
                           loc' = [loc EXCEPT !.queue = popped \o q]
    /\ UNCHANGED <<repo, commits, remote, restored, exc, pre, log>>

\* The scan's result: no repository aborts the run.
BackupStart ==
    /\ pc = "backup"
    /\ IF loc.repositories = <<>>
       THEN pc' = "backup_raised" /\ exc' = "AbortOperationError" /\ loc' = loc
       ELSE pc' = "backup_loop" /\ exc' = exc /\ loc' = [loc EXCEPT !.i = 1]
    /\ UNCHANGED <<repo, commits, remote, restored, pre, log>>

\* The head of the loop: the destination of the next repository is prepared
\* and backup_single is called for it.
BackupIterate ==
    /\ pc = "backup_loop"
    /\ IF loc.i > Len(loc.repositories)
       THEN pc' = "backup_returned" /\ UNCHANGED <<repo, commits, remote, loc, pre, log>>
       ELSE /\ pc' = "bs_entry_bulk"
            /\ repo' = loc.repositories[loc.i]
            /\ pre' = loc.repositories[loc.i]
            /\ commits' = InitCommits(1)
            /\ remote' = FreshRemote
            /\ log' = log \o <<"mkdirs", "init_git_bare_if_needed">>
            /\ loc' = [InitLoc EXCEPT !.repositories = loc.repositories, !.i = loc.i,
                                      !.invoked = Append(loc.invoked, loc.i)]
    /\ UNCHANGED <<restored, exc>>

BulkBackupSingleEntry ==
    /\ pc = "bs_entry_bulk"
    /\ BackupSingleArguments(BulkRemoteArg, FALSE)

\* backup_single returned: the loop goes on with the next repository.
BackupSingleReturned ==
    /\ pc = "returned"
    /\ pc' = "backup_loop"
    /\ loc' = [loc EXCEPT !.i = loc.i + 1]
    /\ UNCHANGED <<repo, commits, remote, restored, exc, pre, log>>

\* backup_single raised: the call is not guarded, the exception leaves backup().
PropagatesUnlessAbort(e) == e # "AbortOperationError"

PropagatesOutOfBackup(e) == TRUE

BackupSingleRaised ==
    /\ pc = "raised"
    /\ IF PropagatesOutOfBackup(exc)
       THEN pc' = "backup_raised" /\ exc' = exc /\ loc' = loc
       ELSE pc' = "backup_loop" /\ exc' = "" /\ loc' = [loc EXCEPT !.i = loc.i + 1]
    /\ UNCHANGED <<repo, commits, remote, restored, pre, log>>

Next ==
    \/ BackupSingleEntry
    \/ CheckOngoing
    \/ IdentifyOrigin
    \/ CreateScratchBranch
    \/ EnterScratchBranch
    \/ CommitStaged
    \/ AddAll
    \/ AddForce
    \/ CommitUnstaged
    \/ LeaveScratchBranch
    \/ ResetMixed
    \/ ResetSoft
    \/ PushAll
    \/ ListBranches
    \/ Reconcile
    \/ Cleanup
    \/ RestoreCall
    \/ RestoreEntry
    \/ PrepareDestination
    \/ Clone
    \/ CreateLocalBranches
    \/ DecideUnwind
    \/ RestoreSymbolicRef
    \/ RestoreResetMixed
    \/ RestoreResetSoft
    \/ Obliterate
    \/ ReflogExpire
    \/ GarbageCollect
    \/ RemoveRemote

Spec == Init /\ [][Next]_vars

BulkNext ==
    \/ Scan
    \/ BackupStart
    \/ BackupIterate
    \/ BulkBackupSingleEntry
    \/ CheckOngoing
    \/ IdentifyOrigin
    \/ CreateScratchBranch
    \/ EnterScratchBranch
    \/ CommitStaged
    \/ AddAll
    \/ AddForce
    \/ CommitUnstaged
    \/ LeaveScratchBranch
    \/ ResetMixed
    \/ ResetSoft
    \/ PushAll
    \/ ListBranches
    \/ Reconcile
    \/ Cleanup
    \/ BackupSingleReturned
    \/ BackupSingleRaised

SpecBulk == BulkInit /\ [][BulkNext]_vars

\* The name of the source directory, and the sub-path of the backup root a
\* repository is pushed to: the repository's name when it is the source
\* directory, else its path relative to the source directory.
SourceName == "src"

AlwaysSourceName(repository, source_directory) == <<SourceName>>

remote_subdirectory(repository, source_directory) ==
    IF repository = source_directory THEN <<SourceName>> ELSE repository

\* The scan alone, run to its end: the loop of yield_git_repositories goes on
\* while the queue holds a directory.
ScanNext == Scan

SpecScan == BulkInit /\ [][ScanNext]_vars /\ WF_vars(ScanNext)

\* ------------------------------------------------ snapshot attribute values
\* The snapshot of a repository whose paths carry gibby-snapshot attributes:
\* the values check-attr reports for the directory "d", for "d/x" and "ig".
AttributeValues == {"force", "only_if_staged_ignore_parent", "unspecified"}

AttrInit ==
    /\ pc = "bs_entry"
    /\ \E xi \in CommittedContents, xw \in Contents, gw \in CommittedContents,
          da \in {"force", "unspecified"}, xa \in AttributeValues,
          ga \in {"force", "unspecified"}, m \in {AllMarkers, NoMarkers} :
          repo = [head |-> [branch |-> MAIN, commit |-> 0],
                  branches |-> InitBranches(MAIN, FALSE),
                  index |-> [f \in Files |-> IF f = "t" THEN 1 ELSE IF f = "d/x" THEN xi ELSE 0],
                  wt |-> [f \in Files |-> IF f = "t" THEN 1 ELSE IF f = "d/x" THEN xw ELSE gw],
                  attrs |-> [p \in Paths |->
                               CASE p = "d" -> da [] p = "d/x" -> xa [] p = "ig" -> ga
                                 [] OTHER -> "unspecified"],
                  markers |-> m]
    /\ commits = InitCommits(1)
    /\ remote \in InitRemotes
    /\ restored = NoRepo
    /\ loc = InitLoc
    /\ exc = ""
    /\ pre = repo
    /\ log = <<>>

AttrNext ==
    \/ BackupSingleEntry
    \/ CheckOngoing
    \/ IdentifyOrigin
    \/ CreateScratchBranch
    \/ EnterScratchBranch
    \/ CommitStaged
    \/ AddAll
    \/ AddForce
    \/ CommitUnstaged
    \/ LeaveScratchBranch
    \/ ResetMixed
    \/ ResetSoft
    \/ PushAll
    \/ ListBranches
    \/ Reconcile
    \/ Cleanup

SpecAttr == AttrInit /\ [][AttrNext]_vars

\* --------------------------------------------------------- force-add batches
\* The loop of _do_snapshot over yield_batches: the paths marked force, here
\* the numbers 1 .. n, are handed to git add --force in batches.
MaxForcePaths == 66

MAX_GIT_ADD_ARGUMENTS == 32

Min(a, b) == IF a < b THEN a ELSE b

\* itertools.islice(iterator, batch_size): the next items, at most batch_size
\* of them, and what the iterator still holds afterwards.
isliceOneMore(iterator, batch_size) == SubSeq(iterator, 1, Min(batch_size + 1, Len(iterator)))

islice(iterator, batch_size) == SubSeq(iterator, 1, Min(batch_size, Len(iterator)))

Consumed(iterator, chunk) == SubSeq(iterator, Len(chunk) + 1, Len(iterator))

BatchInit ==
    /\ pc = "batches"
    /\ repo = NoRepo
    /\ commits = <<>>
    /\ remote = NoRemote
    /\ restored = NoRepo
    /\ \E n \in 0 .. MaxForcePaths :
          loc = [InitLoc EXCEPT !.files_to_force_snapshot = [k \in 1 .. n |-> k],
                                !.iterator = [k \in 1 .. n |-> k]]
    /\ exc = ""
    /\ pre = NoRepo
    /\ log = <<>>

\* One turn of the while loop of yield_batches and, for a chunk that is not
\* empty, the git add --force of the for loop that receives it.
ForceAddBatch ==
    /\ pc = "batches"
    /\ LET chunk == islice(loc.iterator, MAX_GIT_ADD_ARGUMENTS)
       IN IF chunk = <<>>
          THEN pc' = "batches_done" /\ UNCHANGED <<loc, exc, log>>
          ELSE /\ log' = Append(log, "add --force")
               /\ \E ok \in BOOLEAN :
                     IF ok
                     THEN /\ pc' = pc
                          /\ exc' = exc
                          /\ loc' = [loc EXCEPT !.iterator = Consumed(loc.iterator, chunk),
                                                !.batches = Append(loc.batches, chunk)]
                     ELSE pc' = "raised" /\ exc' = "CalledProcessError" /\ loc' = loc
    /\ UNCHANGED <<repo, commits, remote, restored, pre>>

BatchNext == ForceAddBatch

SpecBatch == BatchInit /\ [][BatchNext]_vars

\* ------------------------------------------------------------ FileRemoteUrl
\* init_git_bare_if_needed, called again and again on one location.  A
\* directory is the set of the names of its entries.
MaxCalls == 2

\* What git init --bare creates, and names of other entries.
BareLayout == {"HEAD", "config", "objects", "refs"}
EntryNames == BareLayout \cup {"x", "y"}

AlwaysInitialises(entries) == TRUE

\* next(self._local_path.iterdir(), None) is None
IsEmptyDirectory(entries) == entries = {}

RemoteUrlInit ==
    /\ pc = "init_bare"
    /\ repo = NoRepo
    /\ commits = <<>>
    /\ remote = NoRemote
    /\ restored = NoRepo
    /\ \E x \in BOOLEAN, e \in SUBSET EntryNames :
          /\ ~x => e = {}
          /\ loc = [InitLoc EXCEPT !.local_path = [exists |-> x, entries |-> e]]
    /\ exc = ""
    /\ pre = NoRepo
    /\ log = <<>>

\* One call.  iterdir fails on a missing directory; a failing git init
\* --bare may have created part of the layout.
InitGitBareIfNeeded ==
    /\ pc = "init_bare"
    /\ loc.calls < MaxCalls
    /\ IF ~loc.local_path.exists
       THEN pc' = "raised" /\ exc' = "FileNotFoundError" /\ log' = log
            /\ loc' = [loc EXCEPT !.calls = loc.calls + 1]
       ELSE IF IsEmptyDirectory(loc.local_path.entries)
       THEN /\ log' = Append(log, "init --bare")
            /\ \E ok \in BOOLEAN :
                  IF ok
                  THEN /\ pc' = pc
                       /\ exc' = exc
                       /\ loc' = [loc EXCEPT !.calls = loc.calls + 1,
                                             !.local_path.entries = loc.local_path.entries \cup BareLayout]
                  ELSE /\ pc' = "raised"
                       /\ exc' = "CalledProcessError"
                       /\ \E part \in {{}, {"HEAD"}} :
                             loc' = [loc EXCEPT !.calls = loc.calls + 1,
                                                !.local_path.entries = loc.local_path.entries \cup part]
       ELSE pc' = pc /\ exc' = exc /\ log' = log
            /\ loc' = [loc EXCEPT !.calls = loc.calls + 1]
    /\ UNCHANGED <<repo, commits, remote, restored, pre>>

RemoteUrlNext == InitGitBareIfNeeded

SpecRemoteUrl == RemoteUrlInit /\ [][RemoteUrlNext]_vars

\* --------------------------------------------------- FileRemoteUrl.mkdirs
\* mkdirs, called again and again on one location.  The location and the
\* directories above it are the levels of one path: level 0 is the root of
\* the file system, which exists, level k + 1 is an entry of level k.  Each
\* level is [exists, mode], the mode being the nine permission bits.
MaxDepth == 3

\* 0o755, 0o775 and 0o777; the umask of the process: 0 or 0o022; the mode of
\* the directories that exist beforehand: 0o700.
PermissionChoices == {493, 509, 511}
UmaskChoices == {0, 18}
ExistingMode == 448
AllBits == 511

RECURSIVE BitAnd(_, _, _)
BitAnd(a, b, width) ==
    IF width = 0 THEN 0
    ELSE (a % 2) * (b % 2) + 2 * BitAnd(a \div 2, b \div 2, width - 1)

\* The mode os.mkdir gives a new directory: the umask is masked out first.
MkdirMode(mode, umask) == BitAnd(mode, AllBits - umask, 9)

\* directory.parent: the root is its own parent.
ParentLevel(directory) == IF directory = 0 THEN 0 ELSE directory - 1

MkdirsInit ==
    /\ pc = "mk_returned"
    /\ repo = NoRepo
    /\ commits = <<>>
    /\ remote = NoRemote
    /\ restored = NoRepo
    /\ \E target \in 1 .. MaxDepth, permissions \in PermissionChoices, umask \in UmaskChoices :
       \E existing \in 0 .. target :
          /\ loc = [InitLoc EXCEPT
                       !.fs = [l \in 0 .. MaxDepth |->
                                  IF l <= existing
                                  THEN [exists |-> TRUE, mode |-> ExistingMode]
                                  ELSE [exists |-> FALSE, mode |-> 0]],
                       !.target = target,
                       !.permissions = permissions,
                       !.umask = umask]
          /\ pre = loc.fs
    /\ exc = ""
    /\ log = <<>>

\* The call: missing_directories = [], directory = self._local_path.
MkdirsCall ==
    /\ pc = "mk_returned"
    /\ loc.calls < MaxCalls
    /\ pc' = "mk_while"
    /\ loc' = [loc EXCEPT !.calls = loc.calls + 1,
                          !.missing_directories = <<>>,
                          !.directory = loc.target,
                          !.created_before = Len(log)]
    /\ pre' = loc.fs
    /\ UNCHANGED <<repo, commits, remote, restored, exc, log>>

\* One test of the while loop and, if it holds, one turn of its body.
MkdirsWalkUp ==
    /\ pc = "mk_while"
    /\ IF ~loc.fs[loc.directory].exists
       THEN LET next_directory == ParentLevel(loc.directory)
                missing == Append(loc.missing_directories, loc.directory)
            IN IF loc.directory = next_directory
               THEN pc' = "mk_for" /\ loc' = [loc EXCEPT !.missing_directories = missing]
               ELSE pc' = pc /\ loc' = [loc EXCEPT !.missing_directories = missing,
                                                   !.directory = next_directory]
       ELSE pc' = "mk_for" /\ loc' = loc
    /\ UNCHANGED <<repo, commits, remote, restored, exc, pre, log>>

\* One turn of the for loop over reversed(missing_directories): a mkdir,
\* which may fail.  The log records the level of each directory created.
MkdirsCreate ==
    /\ pc = "mk_for"
    /\ IF loc.missing_directories = <<>>
       THEN pc' = "mk_returned" /\ UNCHANGED <<loc, exc, log>>
       ELSE LET n == Len(loc.missing_directories)
                directory == loc.missing_directories[n]
            IN \E ok \in BOOLEAN :
                  IF ok
                  THEN /\ pc' = pc
                       /\ exc' = exc
                       /\ log' = Append(log, directory)
                       /\ loc' = [loc EXCEPT
                             !.missing_directories = SubSeq(loc.missing_directories, 1, n - 1),
                             !.fs[directory] =
                                 [exists |-> TRUE,
                                  mode |-> MkdirMode(loc.permissions, loc.umask)]]
                  ELSE pc' = "raised" /\ exc' = "OSError" /\ UNCHANGED <<loc, log>>
    /\ UNCHANGED <<repo, commits, remote, restored, pre>>

MkdirsNext ==
    \/ MkdirsCall
    \/ MkdirsWalkUp
    \/ MkdirsCreate

SpecMkdirs == MkdirsInit /\ [][MkdirsNext]_vars

\* ------------------------------------- yield_paths_with_snapshot_attribute
\* The decoding of the output of git check-attr --stdin -z: records of
\* three fields, path, attribute name and value, each field followed by a
\* NUL; the loop also accepts an output whose last NUL is missing.  A byte
\* string is a sequence of atoms, NUL one of them; positions count from 0
\* as in the source.
MaxRecords == 3

NUL == "\\0"
SNAPSHOT_ATTRIBUTE == <<"gibby-snapshot">>
RecordPaths == {<<"t">>, <<"d", "/", "x">>}
RecordValues == {<<"force">>, <<"only-if-staged-ignore-parent">>, <<"set">>, <<"unspecified">>}

RECURSIVE CheckAttrOutput(_)
CheckAttrOutput(records) ==
    IF records = <<>> THEN <<>>
    ELSE Head(records).path \o <<NUL>> \o SNAPSHOT_ATTRIBUTE \o <<NUL>>
            \o Head(records).value \o <<NUL>> \o CheckAttrOutput(Tail(records))

\* stdout.index(b"\0", start): the first position at or after start that
\* holds the byte, -1 standing for the ValueError of a search that fails.
IndexAfter(stdout, byte, start) ==
    IF \E j \in (start + 1) .. (Len(stdout) - 1) : stdout[j + 1] = byte
    THEN CHOOSE j \in (start + 1) .. (Len(stdout) - 1) :
            stdout[j + 1] = byte /\ \A h \in (start + 1) .. (j - 1) : stdout[h + 1] # byte
    ELSE -1

Index(stdout, byte, start) ==
    IF \E j \in start .. (Len(stdout) - 1) : stdout[j + 1] = byte
    THEN CHOOSE j \in start .. (Len(stdout) - 1) :
            stdout[j + 1] = byte /\ \A h \in start .. (j - 1) : stdout[h + 1] # byte
    ELSE -1

\* stdout[a:b]
Slice(stdout, a, b) == SubSeq(stdout, a + 1, b)

\* SnapshotBehavior.from_str is not part of the sources at hand: the member
\* a value names, the default member for any other value.
from_str(value) ==
    CASE value = <<"force">> -> "force"
      [] value = <<"only-if-staged-ignore-parent">> -> "only_if_staged_ignore_parent"
      [] OTHER -> "only_if_staged"

DecodeInit ==
    /\ pc = "decode"
    /\ repo = NoRepo
    /\ commits = <<>>
    /\ remote = NoRemote
    /\ restored = NoRepo
    /\ \E k \in 0 .. MaxRecords, last_nul \in BOOLEAN :
       \E records \in [1 .. k -> [path : RecordPaths, value : RecordValues]] :
          /\ last_nul \/ k > 0
          /\ loc = [InitLoc EXCEPT
                       !.records = records,
                       !.stdout = IF last_nul THEN CheckAttrOutput(records)
                                  ELSE SubSeq(CheckAttrOutput(records), 1,
                                              Len(CheckAttrOutput(records)) - 1)]
    /\ exc = ""
    /\ pre = NoRepo
    /\ log = <<>>

\* One test of the while loop and one turn of its body.
DecodeRecord ==
    /\ pc = "decode"
    /\ LET stdout == loc.stdout
           i == loc.i
       IN IF ~(i < Len(stdout)) \/ Index(stdout, NUL, i) = -1
          THEN pc' = "decoded" /\ exc' = exc /\ loc' = loc
          ELSE LET next_separator == Index(stdout, NUL, i)
                   path == Slice(stdout, i, next_separator)
                   tag == Index(stdout, NUL, next_separator) + 1
               IN IF Index(stdout, NUL, tag) = -1
                  THEN pc' = "raised" /\ exc' = "ValueError" /\ loc' = loc
                  ELSE LET start == Index(stdout, NUL, tag) + 1
                           end == IF Index(stdout, NUL, start) = -1
                                  THEN Len(stdout)
                                  ELSE Index(stdout, NUL, start)
                           value == Slice(stdout, start, end)
                       IN /\ pc' = pc
                          /\ exc' = exc
                          /\ loc' = [loc EXCEPT
                                !.i = end + 1,
                                !.yielded =
                                    IF value # <<"unspecified">>
                                    THEN Append(loc.yielded, <<path, from_str(value)>>)
                                    ELSE loc.yielded]
    /\ UNCHANGED <<repo, commits, remote, restored, pre, log>>

DecodeNext == DecodeRecord

SpecDecode == DecodeInit /\ [][DecodeNext]_vars /\ WF_vars(DecodeNext)

\* ---------------------------------------------------------------- FileTree
\* FileTree.from_list and FileTree.walk.  A tree is the sequence of its
\* nodes other than the root, in the order of their creation: each is
\* [path, should_snapshot, parent], the parent being the position of a node
\* or 0 for the root, so that the rebel_descendants of a node are the nodes
\* that name it as parent, in the order of the sequence.  MaxValues bounds
\* the length of the list given to from_list.
MaxValues == 4

TreePaths == {<<"a">>, <<"b">>, <<"a", "x">>, <<"b", "y">>}
Behaviors == {"force", "only_if_staged", "only_if_staged_ignore_parent"}

\* The marker that ends a group in the queue of walk.
None == -1

\* path.is_relative_to(other)
is_relative_to(path, other) == Len(other) <= Len(path) /\ SubSeq(path, 1, Len(other)) = other

\* The root is cls(root, False, []).
ShouldSnapshotOf(nodes, n) == IF n = 0 THEN FALSE ELSE nodes[n].should_snapshot

rebel_descendants(nodes, n) == {c \in 1 .. Len(nodes) : nodes[c].parent = n}

\* The elements of a set of positions, in increasing order.
RECURSIVE InOrder(_)
InOrder(S) ==
    IF S = {} THEN <<>>
    ELSE LET least == CHOOSE c \in S : \A d \in S : c <= d
         IN <<least>> \o InOrder(S \ {least})

RECURSIVE insert_descendant(_, _, _, _)
insert_descendant(nodes, self, path, should_snapshot) ==
    LET holders == {c \in rebel_descendants(nodes, self) : is_relative_to(path, nodes[c].path)}
    IN IF holders # {}
       THEN insert_descendant(nodes, CHOOSE c \in holders : \A d \in holders : c <= d,
                              path, should_snapshot)
       ELSE IF should_snapshot # ShouldSnapshotOf(nodes, self)
       THEN Append(nodes, [path |-> path, should_snapshot |-> should_snapshot, parent |-> self])
       ELSE nodes

\* values_list.sort(key=lambda x: len(x[0].parts)): a stable sort.
RECURSIVE SortedByParts(_, _)
SortedByParts(values, parts) ==
    IF \A k \in 1 .. Len(values) : Len(values[k].path) < parts
    THEN <<>>
    ELSE SelectSeq(values, LAMBDA v : Len(v.path) = parts) \o SortedByParts(values, parts + 1)

RECURSIVE InsertAll(_, _)
InsertAll(nodes, values_list) ==
    IF values_list = <<>> THEN nodes
    ELSE LET value == Head(values_list)
             inserted ==
                 IF value.behavior = "force"
                 THEN insert_descendant(nodes, 0, value.path, TRUE)
                 ELSE IF value.behavior = "only_if_staged_ignore_parent"
                 THEN insert_descendant(nodes, 0, value.path, FALSE)
                 ELSE nodes
         IN InsertAll(inserted, Tail(values_list))

from_list(values) == InsertAll(<<>>, SortedByParts(values, 0))

\* The lists given: pairs of a path and a behavior, no path twice.
FileTreeInit ==
    /\ pc = "from_list"
    /\ repo = NoRepo
    /\ commits = <<>>
    /\ remote = NoRemote
    /\ restored = NoRepo
    /\ \E k \in 0 .. MaxValues :
       \E values \in [1 .. k -> [path : TreePaths, behavior : Behaviors]] :
          /\ \A i, j \in 1 .. k : values[i].path = values[j].path => i = j
          /\ loc = [InitLoc EXCEPT !.values = values]
    /\ exc = ""
    /\ pre = NoRepo
    /\ log = <<>>

FromList ==
    /\ pc = "from_list"
    /\ pc' = "walk"
    /\ loc' = [loc EXCEPT !.nodes = from_list(loc.values)]
    /\ UNCHANGED <<repo, commits, remote, restored, exc, pre, log>>

\* walk, up to its loop.
WalkStart ==
    /\ pc = "walk"
    /\ pc' = "walk_loop"
    /\ loc' = [loc EXCEPT
          !.buffer = <<>>,
          !.queue = IF rebel_descendants(loc.nodes, 0) # {}
                    THEN InOrder(rebel_descendants(loc.nodes, 0)) \o <<None>>
                    ELSE <<>>,
          !.should_snapshot = TRUE]
    /\ UNCHANGED <<repo, commits, remote, restored, exc, pre, log>>

\* One test of the while loop of walk and one turn of its body; a group
\* yielded is recorded in loc.groups.
WalkStep ==
    /\ pc = "walk_loop"
    /\ IF loc.queue = <<>>
       THEN pc' = "walked" /\ loc' = loc
       ELSE LET element == Head(loc.queue)
                popped == Tail(loc.queue)
            IN /\ pc' = pc
               /\ IF element = None
                  THEN loc' = [loc EXCEPT
                          !.queue = popped,
                          !.groups = Append(loc.groups,
                                            [should_snapshot |-> loc.should_snapshot,
                                             paths |-> loc.buffer]),
                          !.should_snapshot = ~loc.should_snapshot,
                          !.buffer = <<>>]
                  ELSE loc' = [loc EXCEPT
                          !.buffer = Append(loc.buffer, loc.nodes[element].path),
                          !.queue =
                              IF rebel_descendants(loc.nodes, element) # {}
                              THEN popped \o InOrder(rebel_descendants(loc.nodes, element))
                                          \o <<None>>
                              ELSE popped]
    /\ UNCHANGED <<repo, commits, remote, restored, exc, pre, log>>

FileTreeNext ==
    \/ FromList
    \/ WalkStart
    \/ WalkStep

SpecFileTree == FileTreeInit /\ [][FileTreeNext]_vars

\* ------------------------------------------------- restore of any remote
\* restore_single called for a bare repository that holds the backup of a
\* repository on main (index content ti, files on disk tw), or the same
\* branches with no snapshot pushed.  The remote's HEAD names the scratch
\* branch, main, or master, a branch that was never pushed.
MASTER == <<"master">>

BackedUpCommits(ti, tw) ==
    InitCommits(1) \o
    << [parent |-> 2, tree |-> [EmptyTree EXCEPT !["t"] = ti],
        msg |-> StagedMessage([serialized_branch_name |-> MAIN])],
       [parent |-> 3, tree |-> [EmptyTree EXCEPT !["t"] = tw],
        msg |-> UnstagedMessage([serialized_branch_name |-> MAIN])] >>

RemoteHeads == {GIBBY_SNAPSHOT_BRANCH, MAIN, MASTER}

RestoreRemotes ==
    {rem \in [exists : {TRUE}, head : RemoteHeads,
              branches : { [n \in {MAIN, DEV} |-> IF n = MAIN THEN 2 ELSE 1],
                           [n \in {MAIN, DEV, GIBBY_SNAPSHOT_BRANCH} |->
                               IF n = MAIN THEN 2 ELSE IF n = DEV THEN 1 ELSE 4] }] :
        rem.head = GIBBY_SNAPSHOT_BRANCH => GIBBY_SNAPSHOT_BRANCH \in DOMAIN rem.branches}

RestoreInit ==
    /\ pc = "returned"
    /\ repo = NoRepo
    /\ \E ti \in Contents, tw \in Contents : commits = BackedUpCommits(ti, tw)
    /\ remote \in RestoreRemotes
    /\ restored = NoRepo
    /\ loc = InitLoc
    /\ exc = ""
    /\ pre = NoRepo
    /\ log = <<>>

RestoreNext ==
    \/ RestoreCall
    \/ RestoreEntry
    \/ PrepareDestination
    \/ Clone
    \/ CreateLocalBranches
    \/ DecideUnwind
    \/ RestoreSymbolicRef
    \/ RestoreResetMixed
    \/ RestoreResetSoft
    \/ Obliterate
    \/ ReflogExpire
    \/ GarbageCollect
    \/ RemoveRemote

SpecRestore == RestoreInit /\ [][RestoreNext]_vars

\* ------------------------------------------------------------------ claims
\* The branches of a repository other than the scratch branch.
UserBranches(bs) == [n \in (DOMAIN bs) \ {GIBBY_SNAPSHOT_BRANCH} |-> bs[n]]

\* The paths a snapshot can hold: those not ignored, those tracked, those
\* marked force.
SnapshottedFiles(r) ==
    {f \in Files : f \notin Ignored \/ r.index[f] # 0 \/ r.attrs[f] = "force"}

BackupEnded == pc \in {"returned", "raised"}

\* An operation is in progress iff its marker ref exists.
OperationInProgress(r) == \E m \in DOMAIN r.markers : r.markers[m]

\* C1: round trip.  When restore_single (drop_snapshot = false) has finished
\* after a completed backup_single, the restored repository has the HEAD, the
\* branches with their tips, the index and the snapshotted working-tree paths
\* the original had when the backup started.
C1_RoundTrip ==
    (pc = "rs_done" /\ ~loc.drop_snapshot) =>
        /\ restored.head = pre.head
        /\ UserBranches(restored.branches) = UserBranches(pre.branches)
        /\ restored.index = pre.index
        /\ \A f \in SnapshottedFiles(pre) : restored.wt[f] = pre.wt[f]

\* C2: a completed backup_single of a repository on a branch leaves HEAD on
\* that branch, every pre-existing branch at its commit, and the index and
\* the working tree as they were.
C2_BranchOriginUntouched ==
    (pc = "returned" /\ OnBranch(pre)) =>
        /\ repo.head = pre.head
        /\ \A n \in DOMAIN pre.branches :
              n \in DOMAIN repo.branches /\ repo.branches[n] = pre.branches[n]
        /\ repo.index = pre.index
        /\ repo.wt = pre.wt

\* C3: a completed backup_single of a repository in detached-HEAD state with
\* uncommitted changes leaves HEAD detached at the same commit, and the index
\* and the working tree as they were.
HasUncommittedChanges(r, cs) ==
    r.index # TreeOf(cs, HeadCommit(r)) \/ \E f \in Files \ Ignored : r.wt[f] # r.index[f]

C3_DetachedOriginUntouched ==
    (pc = "returned" /\ ~OnBranch(pre) /\ HasUncommittedChanges(pre, commits)) =>
        /\ repo.head = pre.head
        /\ repo.index = pre.index
        /\ repo.wt = pre.wt

\* C4: once backup_single has ended, normally or not, the scratch branch does
\* not exist and HEAD designates what it designated before (stated for
\* repositories that held no scratch branch beforehand).
C4_NoScratchLeftBehind ==
    (BackupEnded /\ ~HasScratch(pre)) =>
        /\ ~HasScratch(repo)
        /\ repo.head = pre.head
        /\ HeadCommit(repo) = HeadCommit(pre)

\* C5: when a command of the push phase failed, backup_single ends with the
\* deletion of the scratch branch executed, the failure raised, and HEAD,
\* index and working tree as before the call.
C5_PushFailureCleansUp ==
    (pc = "raised" /\ loc.pending # "") =>
        /\ log[Len(log)] = "branch -D"
        /\ exc = "CalledProcessError"
        /\ repo.head = pre.head
        /\ repo.index = pre.index
        /\ repo.wt = pre.wt

\* C6: with an operation in progress, or the scratch branch checked out, a
\* call that got past its argument checks raises AbortOperationError and
\* has changed nothing and pushed nothing.
C6_PreconditionAborts ==
    ( /\ OperationInProgress(pre) \/ pre.head.branch = GIBBY_SNAPSHOT_BRANCH
      /\ pc \notin {"bs_entry", "checks", "origin"}
      /\ exc # "ValueError" ) =>
        /\ pc = "raised"
        /\ exc = "AbortOperationError"
        /\ repo = pre
        /\ log = <<>>

\* C7: a scratch branch that exists when backup_single starts exists ever
\* after, at the same commit.
C7_ExistingScratchKept ==
    HasScratch(pre) =>
        /\ HasScratch(repo)
        /\ repo.branches[GIBBY_SNAPSHOT_BRANCH] = pre.branches[GIBBY_SNAPSHOT_BRANCH]

\* C8: branch reconciliation.  When backup_single has completed, a branch
\* that was at the remote after the push is gone from the remote iff it is
\* not in the local branch set read after the push, and a branch on both
\* sides is at the remote with the tip that was pushed.
C8_Reconciliation ==
    pc = "returned" =>
        \A r \in loc.remote_after_push :
            /\ (r \notin DOMAIN remote.branches) <=> (r \notin loc.local_branches)
            /\ r \in loc.local_branches => remote.branches[r] = loc.pushed_tips[r]

C8_Witness ==
    /\ pc = "returned"
    /\ \E r \in loc.remote_after_push : r \notin loc.local_branches
    /\ \E r \in loc.remote_after_push : r \in loc.local_branches

\* C9: restore_single with drop_snapshot = true, on a clone whose checked-out
\* branch is the scratch branch, runs neither the symbolic-ref switch nor the
\* resets, and ends with the unstaged@ commit still the tip of a branch.
IsUnstagedCommit(cs, c) == c # 0 /\ StartsWith(cs[c].msg, <<"unstaged", "@">>)

C9_DropSnapshotSkipsUnwinding ==
    (loc.drop_snapshot /\ loc.current_branch = GIBBY_SNAPSHOT_BRANCH) =>
        /\ pc \notin {"rs_symref", "rs_reset_mixed", "rs_reset_soft"}
        /\ pc = "rs_done" =>
              \E n \in DOMAIN restored.branches : IsUnstagedCommit(commits, restored.branches[n])

\* Whether the precondition checks of the snapshot abort for a repository.
SnapshotAborts(r) == FirstTrueCheck(r) # 0 \/ IsReservedCheckout(get_current_branch(r))

BackupEndedBulk == pc \in {"backup_returned", "backup_raised"}

ParentDir(f) == IF \E d \in Dirs : f \in Below(d) THEN CHOOSE d \in Dirs : f \in Below(d) ELSE ""

\* C11: ignore precedence.  Once the unstaged@ commit is made: an untracked
\* path marked only_if_staged_ignore_parent under a directory marked force
\* was not passed to a force-add and is not in the commit's tree; an ignored
\* path marked force under an unmarked directory is in the commit's tree.
C11_IgnorePrecedence ==
    pc = "leave" =>
        \A f \in Files :
            /\ ( /\ ParentDir(f) # ""
                 /\ pre.attrs[ParentDir(f)] = "force"
                 /\ pre.attrs[f] = "only_if_staged_ignore_parent"
                 /\ pre.index[f] = 0 ) =>
                   /\ f \notin loc.force_paths
                   /\ TreeOf(commits, HeadCommit(repo))[f] = 0
            /\ ( /\ f \in Ignored
                 /\ pre.wt[f] # 0
                 /\ pre.attrs[f] = "force"
                 /\ (ParentDir(f) # "" => pre.attrs[ParentDir(f)] = "unspecified") ) =>
                   TreeOf(commits, HeadCommit(repo))[f] = pre.wt[f]

\* C12: restore_single clones only into an empty directory.  A destination
\* that is a non-empty directory or no directory makes the destination check
\* raise ValueError with the destination untouched and nothing cloned; the
\* clone starts only on a destination that is an empty directory.
C12_DestinationChecked ==
    /\ [](pc = "clone" => loc.restore_to = "empty_dir")
    /\ [][ (pc = "rs_dest" /\ loc.restore_to \in {"nonempty_dir", "file"}) =>
              /\ pc' = "rs_raised"
              /\ exc' = "ValueError"
              /\ loc'.restore_to = loc.restore_to
              /\ restored' = NoRepo
              /\ log' = log ]_vars

C12_Witness ==
    /\ pc = "rs_raised"
    /\ exc = "ValueError"
    /\ loc.restore_to = "nonempty_dir"
    /\ ~StartsWith(loc.remote_arg, <<"-">>)

\* C14: backup_single called with test_connectivity = true for a remote that
\* does not exist raises AbortOperationError with the repository as it was:
\* no scratch branch created, no commit made, no git command run.
C14_ConnectivityAbort ==
    ( /\ loc.test_connectivity
      /\ ~StartsWith(loc.remote_arg, <<"-">>)
      /\ ~remote.exists ) =>
        /\ pc = "raised"
        /\ exc = "AbortOperationError"
        /\ repo = pre
        /\ Len(commits) = Len(InitCommits(0))
        /\ log = <<>>

C14_Witness ==
    /\ pc = "raised"
    /\ exc = "AbortOperationError"
    /\ loc.test_connectivity
    /\ loc.probed
    /\ ~remote.exists
    /\ ~OperationInProgress(pre)

\* C15: a remote that begins with "-" makes backup_single and restore_single
\* raise ValueError at once: no probe, no git command, the repository and
\* the destination as they were.
C15_DashRemoteRejected ==
    /\ [](StartsWith(loc.remote_arg, <<"-">>) =>
            /\ pc \in {"raised", "rs_entry", "rs_raised"}
            /\ pc = "raised" =>
                  exc = "ValueError" /\ repo = pre /\ log = <<>> /\ ~loc.probed
            /\ pc = "rs_raised" => exc = "ValueError" /\ restored = NoRepo)
    /\ [][ (pc = "rs_entry" /\ StartsWith(loc.remote_arg, <<"-">>)) =>
              /\ pc' = "rs_raised"
              /\ loc' = loc
              /\ log' = log
              /\ restored' = restored ]_vars

C15_Witness ==
    /\ pc = "rs_raised"
    /\ StartsWith(loc.remote_arg, <<"-">>)
    /\ loc.restore_to = "missing"

\* C13: a scan that yields no repository (the root itself ignored included)
\* makes backup() raise AbortOperationError with no destination prepared and
\* no backup_single invoked; and while the scan runs nothing has been done
\* at any destination.
C13_EmptyScanAborts ==
    /\ pc = "scan" => log = <<>> /\ loc.invoked = <<>> /\ ~remote.exists
    /\ (pc \notin {"scan", "backup"} /\ loc.repositories = <<>>) =>
          /\ pc = "backup_raised"
          /\ exc = "AbortOperationError"
          /\ log = <<>>
          /\ loc.invoked = <<>>
          /\ ~remote.exists
    /\ (pc # "scan" /\ Root \in loc.ignore_dir) => loc.repositories = <<>>

C13_Witness ==
    /\ pc = "backup_raised"
    /\ loc.repositories = <<>>
    /\ Root \in loc.ignore_dir
    /\ loc.source_directory[Root].has_git

RECURSIVE Concatenation(_)
Concatenation(ss) == IF ss = <<>> THEN <<>> ELSE Head(ss) \o Concatenation(Tail(ss))

\* C16: batch boundary.  For n paths marked force the finished loop has run
\* ceil(n / 32) force-adds, each of 1 to 32 paths, all but the last of
\* exactly 32, and their paths in order are the n paths, none dropped or
\* repeated.
C16_BatchBoundary ==
    pc = "batches_done" =>
        LET n == Len(loc.files_to_force_snapshot)
            b == loc.batches
        IN /\ Len(b) = (n + MAX_GIT_ADD_ARGUMENTS - 1) \div MAX_GIT_ADD_ARGUMENTS
           /\ Len(log) = Len(b)
           /\ \A k \in 1 .. Len(b) : Len(b[k]) >= 1 /\ Len(b[k]) <= MAX_GIT_ADD_ARGUMENTS
           /\ \A k \in 1 .. (Len(b) - 1) : Len(b[k]) = MAX_GIT_ADD_ARGUMENTS
           /\ Concatenation(b) = loc.files_to_force_snapshot

C16_Witness ==
    /\ pc = "batches_done"
    /\ Len(loc.files_to_force_snapshot) = MAX_GIT_ADD_ARGUMENTS + 1
    /\ Len(loc.batches) = 2
    /\ Len(loc.batches[2]) = 1

\* C17: idempotent bare-init.  A call on a directory that is not empty runs
\* no initialisation and leaves the content as it is; a call on an empty
\* directory runs git init --bare; so over any number of calls that do not
\* fail the initialisation has run at most once, and once it has run the
\* directory holds the bare layout.
C17_IdempotentBareInit ==
    /\ [][ (pc = "init_bare" /\ loc.local_path.exists) =>
              /\ loc.local_path.entries # {} =>
                    pc' = pc /\ loc'.local_path = loc.local_path /\ log' = log
              /\ (loc.local_path.entries = {} /\ pc' = pc) =>
                    /\ log' = Append(log, "init --bare")
                    /\ loc'.local_path.entries = BareLayout ]_vars
    /\ [](pc = "init_bare" =>
            /\ Len(log) <= 1
            /\ Len(log) = 1 => loc.calls >= 1 /\ loc.local_path.entries = BareLayout)

C17_Witness ==
    /\ pc = "init_bare"
    /\ loc.calls = 2
    /\ log = <<"init --bare">>

\* The ref each check of the loop tests, in the order of the checks.
MarkerRefs == <<"CHERRY_PICK_HEAD", "MERGE_HEAD", "REBASE_HEAD", "REVERT_HEAD">>

\* C18: the in-progress checks are exact.  Once the loop of checks has run:
\* each check answered true iff its marker ref exists; the snapshot went on
\* only with no operation in progress; with none in progress and a checkout
\* that is not reserved, the only abort possible is the connectivity one;
\* and an abort of the loop names an operation whose ref exists.
C18_InProgressChecksExact ==
    /\ pc \in {"origin", "raised"} =>
          \A k \in 1 .. 4 : RunCheck(pre, k) <=> pre.markers[MarkerRefs[k]]
    /\ pc \in {"origin", "branch_f"} => ~OperationInProgress(pre)
    /\ ( /\ pc = "raised"
         /\ exc = "AbortOperationError"
         /\ ~OperationInProgress(pre)
         /\ ~IsReservedCheckout(get_current_branch(pre)) ) =>
           loc.test_connectivity /\ ~remote.exists
    /\ ( /\ pc = "raised"
         /\ exc = "AbortOperationError"
         /\ ~(loc.test_connectivity /\ ~remote.exists)
         /\ FirstTrueCheck(pre) # 0 ) =>
           pre.markers[MarkerRefs[FirstTrueCheck(pre)]]

\* C19: origin encoding round trip.  The origin restore_single recovers from
\* the message of the unstaged@ commit is the origin the snapshot wrote, and
\* a restore that unwound the snapshot ends with HEAD where the origin was:
\* on that branch, or detached at that commit.
C19_OriginEncodingRoundTrip ==
    /\ loc.original_branch # <<>> => loc.original_branch = SerializedBranchName(pre)
    /\ (pc = "rs_done" /\ loc.original_branch # <<>>) => restored.head = pre.head

\* C20: when the push and the reconciliation succeeded and the deletion of
\* the scratch branch, the last command run, failed, backup_single has not
\* raised.
C20_CleanupFailureTolerated ==
    ( /\ loc.pending = ""
      /\ log # <<>>
      /\ log[Len(log)] = "branch -D"
      /\ HasScratch(repo) ) =>
        pc # "raised"

\* The last n commands of the log (the whole log when it is shorter).
LastCommands(n) == SubSeq(log, IF Len(log) > n THEN Len(log) - n + 1 ELSE 1, Len(log))

\* C21: a restore_single that came to its end has removed the alias
\* gibby-origin.  A failed deletion of the scratch branch does not raise and
\* leads straight to the removal of the alias, with no reflog expiry and no
\* garbage collection; a successful one leaves no scratch branch and is
\* followed by reflog expiry, then garbage collection, then the removal.
C21_AliasRemoved ==
    /\ [](pc = "rs_done" =>
            /\ ~restored.alias
            /\ \/ LastCommands(2) = <<"branch -D", "remote remove">>
               \/ /\ LastCommands(4) = <<"branch -D", "reflog expire", "gc", "remote remove">>
                  /\ ~HasScratch(restored))
    /\ [](pc \in {"reflog", "gc"} => ~HasScratch(restored))
    /\ [][ pc = "obliterate" =>
              /\ exc' = exc
              /\ pc' \in {"reflog", "remote_remove"}
              /\ pc' = "remote_remove" => restored' = restored
              /\ pc' = "reflog" => ~HasScratch(restored') ]_vars

C21_Witness ==
    /\ pc = "rs_done"
    /\ HasScratch(restored)
    /\ LastCommands(2) = <<"branch -D", "remote remove">>
    /\ ~restored.alias

\* C22: plain clone.  When the branch the clone checked out is not the
\* scratch branch, restore_single runs no symbolic-ref and no reset; HEAD,
\* the index and the working tree stay those of the clone; the branches
\* are the clone's and the local tracking branches, less the scratch branch
\* once it is deleted; the alias is removed by the last command only.
C22_PlainClone ==
    (restored # NoRepo /\ loc.current_branch # GIBBY_SNAPSHOT_BRANCH) =>
        LET cloned == GitClone(remote, commits)
            tracked == GitTrackAll(cloned, BranchesToTrack(remote, loc.current_branch))
        IN /\ pc \notin {"rs_symref", "rs_reset_mixed", "rs_reset_soft"}
           /\ \A i \in 1 .. Len(log) : log[i] \notin {"symbolic-ref", "reset", "reset --soft"}
           /\ restored.head = cloned.head
           /\ restored.index = cloned.index
           /\ restored.wt = cloned.wt
           /\ restored.branches \in
                 {cloned.branches, tracked.branches,
                  DropBranch(tracked.branches, GIBBY_SNAPSHOT_BRANCH)}
           /\ pc = "rs_done" =>
                 restored.branches \in
                    {tracked.branches, DropBranch(tracked.branches, GIBBY_SNAPSHOT_BRANCH)}
           /\ restored.alias <=> pc # "rs_done"

C22_Witness ==
    /\ pc = "rs_done"
    /\ loc.current_branch = MAIN
    /\ restored.head.branch = MAIN
    /\ ~HasScratch(restored)
    /\ DEV \in DOMAIN restored.branches
    /\ \E i \in 1 .. Len(log) : log[i] = "gc"

\* The position of the first occurrence of a command in the log (0 if none).
FirstCommand(cmd) ==
    IF \E i \in 1 .. Len(log) : log[i] = cmd
    THEN CHOOSE i \in 1 .. Len(log) : log[i] = cmd /\ \A j \in 1 .. (i - 1) : log[j] # cmd
    ELSE 0

ProperAncestors(d) == {SubSeq(d, 1, k) : k \in 0 .. (Len(d) - 1)}

\* The repository roots of a tree: the directories that hold .git, are not
\* ignored and lie below no ignored directory and no directory holding .git.
RepositoryRoots(t, ig) ==
    {d \in Directories :
        /\ t[d].has_git
        /\ \A a \in ProperAncestors(d) \cup {d} : a \notin ig
        /\ \A a \in ProperAncestors(d) : ~t[a].has_git}

\* C24: the scan is exact.  It comes to an end; what it has yielded then is
\* each repository root once and nothing else; and no directory below an
\* ignored directory or below a directory holding .git is ever queued.
C24_ScanExact ==
    /\ <>(pc = "backup")
    /\ [](pc = "backup" =>
            /\ {loc.repositories[i].path : i \in 1 .. Len(loc.repositories)}
                  = RepositoryRoots(loc.source_directory, loc.ignore_dir)
            /\ \A i, j \in 1 .. Len(loc.repositories) :
                  loc.repositories[i].path = loc.repositories[j].path => i = j)
    /\ [](\A k \in 1 .. Len(loc.queue) :
             /\ \A a \in ProperAncestors(loc.queue[k]) :
                   a \notin loc.ignore_dir /\ ~loc.source_directory[a].has_git
             /\ \A j \in 1 .. Len(loc.queue) : loc.queue[j] = loc.queue[k] => j = k)

C24_Witness ==
    /\ pc = "backup"
    /\ loc.source_directory[<<"a">>].has_git
    /\ loc.source_directory[<<"a", "c">>].has_git
    /\ <<"b">> \in loc.ignore_dir
    /\ Len(loc.repositories) = 1
    /\ loc.repositories[1].path = <<"a">>

\* The levels mkdir has created during the call that runs or has returned.
CreatedByCall == SubSeq(log, loc.created_before + 1, Len(log))

\* The levels of the location and above that did not exist at the call.
MissingAtCall == {l \in 0 .. loc.target : ~pre[l].exists}

C26_SnapshotKeptAtRemote ==
    /\ pc = "reconcile" =>
          /\ GIBBY_SNAPSHOT_BRANCH \in loc.local_branches
          /\ HasScratch(repo)
          /\ GIBBY_SNAPSHOT_BRANCH \in DOMAIN remote.branches
    /\ pc = "returned" =>
          /\ GIBBY_SNAPSHOT_BRANCH \in DOMAIN remote.branches
          /\ remote.branches[GIBBY_SNAPSHOT_BRANCH] = loc.pushed_tips[GIBBY_SNAPSHOT_BRANCH]
          /\ commits[remote.branches[GIBBY_SNAPSHOT_BRANCH]].msg
                = <<"unstaged", "@">> \o SerializedBranchName(pre)
          /\ ~HasScratch(repo)

C26_Witness ==
    /\ pc = "returned"
    /\ OLD \in loc.remote_after_push
    /\ OLD \notin DOMAIN remote.branches
    /\ GIBBY_SNAPSHOT_BRANCH \in DOMAIN remote.branches
    /\ ~HasScratch(repo)

\* C27: ordering inside backup_single.  During the push and the
\* reconciliation HEAD has been taken back to the origin and the mixed and
\* then the soft reset have run, no deletion of the scratch branch has; HEAD
\* and the index are those of the call, and the scratch branch exists.  The
\* push is the command that follows the soft reset, and the deletion comes
\* after the push.
C27_PushAfterReplay ==
    /\ pc \in {"push", "list", "reconcile"} =>
          /\ FirstCommand("reset") # 0
          /\ FirstCommand("reset") < FirstCommand("reset --soft")
          /\ log[FirstCommand("reset") - 1] \in {"checkout", "symbolic-ref"}
          /\ FirstCommand("branch -D") = 0
          /\ repo.head = pre.head
          /\ HeadCommit(repo) = HeadCommit(pre)
          /\ repo.index = pre.index
          /\ HasScratch(repo)
    /\ pc = "push" => log[Len(log)] = "reset --soft" /\ FirstCommand("push --all") = 0
    /\ FirstCommand("push --all") # 0 =>
          /\ FirstCommand("reset --soft") < FirstCommand("push --all")
          /\ FirstCommand("branch -D") # 0 => FirstCommand("push --all") < FirstCommand("branch -D")

C27_Witness ==
    /\ pc = "reconcile"
    /\ ~OnBranch(pre)
    /\ pre.index # TreeOf(commits, HeadCommit(pre))
    /\ pre.wt # pre.index
    /\ FirstCommand("push --delete") # 0

\* Whether path a is path b or lies above it.
IsAtOrAbove(a, b) == Len(a) <= Len(b) /\ SubSeq(b, 1, Len(a)) = a

\* C28: destinations do not collide.  Of the repositories a finished scan
\* has yielded no one lies at or above another, and neither does the remote
\* sub-path of one lie at or above the remote sub-path of another.
C28_DistinctDestinations ==
    pc = "backup" =>
        \A i, j \in 1 .. Len(loc.repositories) :
            i # j =>
                /\ ~IsAtOrAbove(loc.repositories[i].path, loc.repositories[j].path)
                /\ ~IsAtOrAbove(remote_subdirectory(loc.repositories[i].path, Root),
                                remote_subdirectory(loc.repositories[j].path, Root))

C28_Witness ==
    /\ pc = "backup"
    /\ Len(loc.repositories) = 2
    /\ {loc.repositories[1].path, loc.repositories[2].path} = {<<"a", "c">>, <<"b">>}

\* The pairs the records of a response stand for.
RECURSIVE PairsOf(_)
PairsOf(records) ==
    IF records = <<>> THEN <<>>
    ELSE (IF Head(records).value # <<"unspecified">>
          THEN << <<Head(records).path, from_str(Head(records).value)>> >>
          ELSE <<>>) \o PairsOf(Tail(records))

\* C29: attribute response decoding.  The loop comes to an end without an
\* error; what it has yielded then is, in the order of the response, one
\* pair for each record whose value is not unspecified, made of that
\* record's path and value, and nothing for the other records; and at
\* every turn what it has yielded begins the pairs of the response.
C29_ResponseDecoded ==
    /\ <>(pc = "decoded")
    /\ [](pc # "raised")
    /\ [](pc = "decoded" => loc.yielded = PairsOf(loc.records))
    /\ [](/\ Len(loc.yielded) <= Len(PairsOf(loc.records))
          /\ loc.yielded = SubSeq(PairsOf(loc.records), 1, Len(loc.yielded)))

C29_Witness ==
    /\ pc = "decoded"
    /\ Len(loc.records) = 3
    /\ loc.records[1].value = <<"unspecified">>
    /\ loc.records[2].value = <<"force">>
    /\ loc.records[3].value = <<"only-if-staged-ignore-parent">>
    /\ loc.records[2].path # loc.records[3].path
    /\ Len(loc.yielded) = 2

\* The groups of a finished walk that hold a path, as pairs of the position
\* of the group and the position of the path in it.
YieldedAt(path) ==
    {<<g, k>> \in (1 .. Len(loc.groups)) \X (1 .. Cardinality(TreePaths)) :
        k <= Len(loc.groups[g].paths) /\ loc.groups[g].paths[k] = path}

\* C30, the rebels differ: each node of the tree from_list builds has a
\* should_snapshot value other than that of the node it hangs from.
C30_RebelsDiffer ==
    pc # "from_list" =>
        \A c \in 1 .. Len(loc.nodes) :
            loc.nodes[c].should_snapshot # ShouldSnapshotOf(loc.nodes, loc.nodes[c].parent)

\* C30: FileTree.  The rebels differ, and a finished walk has yielded each
\* node other than the root once, in a group whose flag is the node's
\* should_snapshot value.
C30_FileTreeWalk ==
    /\ C30_RebelsDiffer
    /\ pc = "walked" =>
          \A c \in 1 .. Len(loc.nodes) :
              /\ Cardinality(YieldedAt(loc.nodes[c].path)) = 1
              /\ \A at \in YieldedAt(loc.nodes[c].path) :
                    loc.groups[at[1]].should_snapshot = loc.nodes[c].should_snapshot

====
